---- MODULE Spec2Model ----
(***************************************************************************)
(* Model of rtsp_qrcode_scanner_v1.0.py: the debounced CSV logger          *)
(* (CaptureSaver), the capacity-1 frame queue between FFmpegReader.run and *)
(* QRApp.update_loop, the FFmpegReader restart loop and supervised_run.    *)
(***************************************************************************)
EXTENDS Integers, Sequences, FiniteSets, TLC

\* ------------------------------------------------------------------ bounds
MaxClock == 5
MaxRows == 2
MaxFrames == 2
MaxDeaths == 3

\* --------------------------------------------------------------- constants
SAVE_COOLDOWN_SECONDS == 5
QUEUE_MAXSIZE == 1
SUPERVISOR_SLEEP == 2

None == "None"
Payloads == {"A", "B"}
\* what a maybe_save caller may pass: absent, empty, or a payload
SaveInputs == {None, ""} \cup Payloads
\* threads calling maybe_save on the one logger
Callers == {"t1", "t2"}
NoCaller == "free"

VARIABLES
    clock,              \* the wall clock read by time.time() and datetime.utcnow()
    csv,                \* captures.csv: [exists, rows]
    last_saved_text,    \* CaptureSaver.last_saved_text
    last_saved_time,    \* CaptureSaver.last_saved_time
    lock,               \* CaptureSaver.lock: its holder, or NoCaller
    cpc,                \* per caller: position inside maybe_save
    c_qr,               \* per caller: the qr_text argument
    c_now,              \* per caller: the local `now`
    stop_supervisor,    \* the global flag
    spc,                \* position of supervised_run
    wake,               \* the instant at which the supervisor's sleep(2) ends
    stop_event,         \* QRApp.stop_event
    frame_queue,        \* QRApp.frame_queue (queue.Queue(maxsize=1))
    wpc,                \* position of FFmpegReader.run
    process,            \* FFmpegReader.process: 0 is None, else a subprocess id
    nproc,              \* subprocesses launched so far (ids 1..nproc)
    killed,             \* subprocess ids that were sent kill()
    frame,              \* the worker's local `frame` (0: none), an id from nframes
    nframes,            \* complete frames read so far (ids 1..nframes)
    deaths,             \* short reads and exceptions met so far
    base,               \* history: nproc when this FFmpegReader was constructed
    taken,              \* the consumer's local `frame` of the last update_loop (0: None)
    current_qr,         \* QRApp.current_qr
    lastcall,           \* history: the last maybe_save call that returned
    pubs,               \* history: publishes (123-127) ended since the last successful take
    lastpub,            \* history: the frame of the last publish that ended (0: none)
    dropped,            \* history: frames the worker's get_nowait discarded
    got,                \* history: the last frame the consumer obtained (0: none)
    hpc                 \* position of a stand-alone ensure_csv_header call

logger_vars == <<csv, last_saved_text, last_saved_time, lock>>
caller_vars == <<cpc, c_qr, c_now, lastcall>>
sup_vars == <<stop_supervisor, spc, wake>>
worker_vars == <<wpc, process, nproc, killed, frame, nframes, deaths, base>>
session_vars == <<stop_event, frame_queue, taken, current_qr, pubs, lastpub, dropped,
                  got>>
worker_vars_but_pc == <<process, nproc, killed, frame, nframes, deaths, base>>
header_vars == <<hpc>>
vars == <<header_vars, clock, logger_vars, caller_vars, sup_vars, worker_vars, session_vars>>

\* ------------------------------------------------------------ the CSV file
\* the header row written by ensure_csv_header; ts -1 stands for the literal
\* cell "timestamp_iso"
HeaderRow == [ts |-> -1, text |-> "qr_text"]
NoFile == [exists |-> FALSE, rows |-> <<>>]

\* lines 48-49: open(path, "w") truncates or creates, then the header is written
WriteHeader(f) == [exists |-> TRUE, rows |-> <<HeaderRow>>]

\* the header written without the os.path.exists test
ensure_csv_header_always(f) == WriteHeader(f)

\* ensure_csv_header(path): create the file with the header when it is missing
ensure_csv_header(f) ==
    IF ~f.exists THEN WriteHeader(f) ELSE f

\* open(filename, "a") ... writerow([iso, qr_text]); "a" creates a missing file
AppendRow(f, iso, qr_text) ==
    [exists |-> TRUE, rows |-> Append(f.rows, [ts |-> iso, text |-> qr_text])]

\* the data rows of the file (every row but the header)
DataRows(f) == SelectSeq(f.rows, LAMBDA r : r # HeaderRow)

\* ---------------------------------------------------------- CaptureSaver
\* the decision with the cooldown test written `>` where the code has `>=`
ShouldSaveStrict(text, time, qr_text, now) ==
    text = None \/ qr_text # text \/ now - time > SAVE_COOLDOWN_SECONDS

\* lines 70-77: the decision taken under the lock
ShouldSave(text, time, qr_text, now) ==
    IF text = None THEN TRUE
    ELSE IF qr_text # text THEN TRUE
    ELSE IF now - time >= SAVE_COOLDOWN_SECONDS THEN TRUE
    ELSE FALSE

\* the early return written `if qr_text is None`
FalsyNoneOnly(qr_text) == qr_text = None

\* line 64: `not qr_text`
Falsy(qr_text) == qr_text = None \/ qr_text = ""

\* the timestamp taken from the `now` read before the lock
IsoStale(now) == now

\* line 80: the timestamp written, read from the clock inside the lock
IsoNow(now) == clock

\* the debounce state written before the append is tried
AfterFailedAppendUpdated(text, time, qr_text, now) == <<qr_text, now>>

\* lines 81-84 when open or writerow raises: lines 83-84 are not reached, the
\* debounce state is as it was
AfterFailedAppend(text, time, qr_text, now) == <<text, time>>

\* lines 63-67: the falsy-payload early return, else read the clock
MS_Call(c) ==
    /\ spc = "mainloop"
    /\ cpc[c] = "idle"
    /\ \E q \in SaveInputs :
         IF Falsy(q)
         THEN /\ lastcall' = [qr |-> q, ret |-> FALSE, held |-> lock # NoCaller,
                              raised |-> FALSE]
              /\ UNCHANGED <<cpc, c_qr, c_now>>
         ELSE /\ cpc' = [cpc EXCEPT ![c] = "lock"]
              /\ c_qr' = [c_qr EXCEPT ![c] = q]
              /\ c_now' = [c_now EXCEPT ![c] = clock]
              /\ UNCHANGED lastcall
    /\ UNCHANGED <<header_vars, clock, logger_vars, sup_vars, worker_vars, session_vars>>

\* line 69: `with self.lock` entered
MS_Acquire(c) ==
    /\ cpc[c] = "lock"
    /\ lock = NoCaller
    /\ lock' = c
    /\ cpc' = [cpc EXCEPT ![c] = "cs"]
    /\ UNCHANGED <<header_vars, clock, csv, last_saved_text, last_saved_time, c_qr, c_now, lastcall,
                   sup_vars, worker_vars, session_vars>>

\* lines 70-87: decide, append, update, release the lock and return; when the
\* append raises, the `with` block releases the lock and the error goes to
\* the caller
MS_Critical(c) ==
    /\ cpc[c] = "cs"
    /\ LET should_save == ShouldSave(last_saved_text, last_saved_time, c_qr[c], c_now[c])
       IN  IF should_save
           THEN \/ /\ Len(DataRows(csv)) < MaxRows
                   /\ csv' = AppendRow(csv, IsoNow(c_now[c]), c_qr[c])
                   /\ last_saved_text' = c_qr[c]
                   /\ last_saved_time' = c_now[c]
                   /\ lastcall' = [qr |-> c_qr[c], ret |-> TRUE, held |-> FALSE,
                                   raised |-> FALSE]
                \/ /\ UNCHANGED csv
                   /\ LET after == AfterFailedAppend(last_saved_text,
                                        last_saved_time, c_qr[c], c_now[c])
                      IN  /\ last_saved_text' = after[1]
                          /\ last_saved_time' = after[2]
                   /\ lastcall' = [qr |-> c_qr[c], ret |-> FALSE, held |-> FALSE,
                                   raised |-> TRUE]
           ELSE /\ UNCHANGED <<csv, last_saved_text, last_saved_time>>
                /\ lastcall' = [qr |-> c_qr[c], ret |-> FALSE, held |-> FALSE,
                                raised |-> FALSE]
    /\ lock' = NoCaller
    /\ cpc' = [cpc EXCEPT ![c] = "idle"]
    /\ c_qr' = [c_qr EXCEPT ![c] = None]
    /\ c_now' = [c_now EXCEPT ![c] = 0]
    /\ UNCHANGED <<header_vars, clock, sup_vars, worker_vars, session_vars>>

\* the wall clock advances
Tick ==
    /\ clock < MaxClock
    /\ clock' = clock + 1
    /\ UNCHANGED <<header_vars, logger_vars, caller_vars, sup_vars, worker_vars,
                   session_vars>>

\* ------------------------------------------------------- supervised_run
\* the loop test written `while True`
SupWhileForever ==
    /\ spc = "while"
    /\ spc' = "init"
    /\ UNCHANGED <<header_vars, clock, logger_vars, caller_vars, stop_supervisor, wake,
                   worker_vars, session_vars>>

\* line 318: while not stop_supervisor
SupWhile ==
    /\ spc = "while"
    /\ spc' = IF stop_supervisor THEN "stopped" ELSE "init"
    /\ UNCHANGED <<header_vars, clock, logger_vars, caller_vars, stop_supervisor, wake,
                   worker_vars, session_vars>>

\* lines 320-322 with QRApp.__init__ (160-234), CaptureSaver.__init__ (55-61),
\* FFmpegReader.__init__ (93-100) and QRApp.start (266-268)
SessionInit ==
    /\ spc = "init"
    /\ spc' = "mainloop"
    /\ stop_supervisor' = FALSE
    /\ frame_queue' = <<>>
    /\ stop_event' = FALSE
    /\ wpc' = "loop"
    /\ process' = 0
    /\ frame' = 0
    /\ csv' = ensure_csv_header(csv)
    /\ last_saved_text' = None
    /\ last_saved_time' = 0
    /\ lock' = NoCaller
    /\ current_qr' = ""
    /\ taken' = 0
    /\ pubs' = 0
    /\ lastpub' = 0
    /\ dropped' = 0
    /\ got' = 0
    /\ base' = nproc
    /\ UNCHANGED <<header_vars, clock, caller_vars, wake, nproc, killed, nframes, deaths>>

\* lines 320-321 raising (tk.Tk() or the constructor fails): to the handler
SessionInitRaise ==
    /\ spc = "init"
    /\ spc' = "except"
    /\ UNCHANGED <<header_vars, clock, logger_vars, caller_vars, stop_supervisor, wake,
                   worker_vars, session_vars>>

\* line 323: root.mainloop() returns without quit_app having run
MainloopReturn ==
    /\ spc = "mainloop"
    /\ \A c \in Callers : cpc[c] = "idle"
    /\ spc' = "after"
    /\ UNCHANGED <<header_vars, clock, logger_vars, caller_vars, stop_supervisor, wake,
                   worker_vars, session_vars>>

\* line 323: root.mainloop() raises
MainloopRaise ==
    /\ spc = "mainloop"
    /\ \A c \in Callers : cpc[c] = "idle"
    /\ spc' = "except"
    /\ UNCHANGED <<header_vars, clock, logger_vars, caller_vars, stop_supervisor, wake,
                   worker_vars, session_vars>>

\* lines 254-264: quit_app sets both flags, joins the reader for at most 1 s
\* and ends the mainloop, which returns (or raises on the way out)
quit_app ==
    /\ spc = "mainloop"
    /\ \A c \in Callers : cpc[c] = "idle"
    /\ stop_supervisor' = TRUE
    /\ stop_event' = TRUE
    /\ \E out \in {"after", "except"} : spc' = out
    /\ UNCHANGED <<header_vars, clock, logger_vars, caller_vars, wake, worker_vars,
                   frame_queue, taken, current_qr, pubs, lastpub, dropped, got>>

\* lines 325-330: break when the flag is set, else sleep 2 s
SupAfter ==
    /\ spc = "after"
    /\ IF stop_supervisor
       THEN spc' = "stopped" /\ UNCHANGED wake
       ELSE spc' = "sleep" /\ wake' = clock + SUPERVISOR_SLEEP
    /\ UNCHANGED <<header_vars, clock, logger_vars, caller_vars, stop_supervisor,
                   worker_vars, session_vars>>

\* lines 332-335: the handler logs and sleeps 2 s
SupExcept ==
    /\ spc = "except"
    /\ spc' = "sleep"
    /\ wake' = clock + SUPERVISOR_SLEEP
    /\ UNCHANGED <<header_vars, clock, logger_vars, caller_vars, stop_supervisor,
                   worker_vars, session_vars>>

\* the sleep of line 330 or 335 is over: back to the loop test (336: continue)
SupWake ==
    /\ spc = "sleep"
    /\ clock >= wake
    /\ spc' = "while"
    /\ UNCHANGED <<header_vars, clock, wake, logger_vars, caller_vars, stop_supervisor,
                   worker_vars, session_vars>>

\* the supervisor's steps that take no time
Supervisor ==
    \/ SupWhile \/ SessionInit \/ SessionInitRaise \/ MainloopReturn
    \/ MainloopRaise \/ quit_app \/ SupAfter \/ SupExcept

\* ------------------------------------------------------ FFmpegReader.run
\* line 131/144/152: `if self.process: self.process.kill()`, errors swallowed
KillProcess(k, p) == IF p # 0 THEN k \cup {p} ELSE k

\* line 105: while not self.stop_event.is_set()
W_Loop ==
    /\ wpc = "loop"
    /\ wpc' = IF stop_event THEN "final" ELSE "launch"
    /\ UNCHANGED <<header_vars, clock, logger_vars, caller_vars, sup_vars, session_vars,
                   base, process, nproc, killed, frame, nframes, deaths>>

\* lines 107-114: run_async spawns the subprocess, or raises (to line 138)
W_Launch ==
    /\ wpc = "launch"
    /\ \/ /\ nproc' = nproc + 1
          /\ process' = nproc + 1
          /\ wpc' = "inner"
          /\ UNCHANGED deaths
       \/ /\ deaths < MaxDeaths
          /\ deaths' = deaths + 1
          /\ wpc' = "except"
          /\ UNCHANGED <<process, nproc>>
    /\ UNCHANGED <<header_vars, clock, logger_vars, caller_vars, sup_vars, session_vars,
                   base, killed, frame, nframes>>

\* line 116: while not self.stop_event.is_set()
W_Inner ==
    /\ wpc = "inner"
    /\ wpc' = IF stop_event THEN "kill" ELSE "read"
    /\ UNCHANGED <<header_vars, clock, logger_vars, caller_vars, sup_vars, session_vars,
                   base, process, nproc, killed, frame, nframes, deaths>>

\* the read whose short result is published like a complete one
W_ReadShortPublishes ==
    /\ wpc = "read"
    /\ \/ /\ nframes < MaxFrames
          /\ nframes' = nframes + 1
          /\ frame' = nframes + 1
          /\ wpc' = "qempty"
          /\ UNCHANGED deaths
       \/ /\ deaths < MaxDeaths \/ stop_event
          /\ deaths' = IF deaths < MaxDeaths THEN deaths + 1 ELSE deaths
          /\ wpc' = "qempty"
          /\ UNCHANGED <<frame, nframes>>
    /\ UNCHANGED <<header_vars, clock, logger_vars, caller_vars, sup_vars, session_vars,
                   base, process, nproc, killed>>

\* lines 117-121: a complete read gives a frame; a short or empty read breaks
\* out of the loop; an error in read or reshape goes to line 138. The deaths
\* are counted up to MaxDeaths; once the stop signal is set the pending read
\* still returns, counted or not.
W_Read ==
    /\ wpc = "read"
    /\ \/ /\ nframes < MaxFrames
          /\ nframes' = nframes + 1
          /\ frame' = nframes + 1
          /\ wpc' = "qempty"
          /\ UNCHANGED deaths
       \/ /\ deaths < MaxDeaths \/ stop_event
          /\ deaths' = IF deaths < MaxDeaths THEN deaths + 1 ELSE deaths
          /\ \E to \in {"kill", "except"} : wpc' = to
          /\ UNCHANGED <<frame, nframes>>
    /\ UNCHANGED <<header_vars, clock, logger_vars, caller_vars, sup_vars, session_vars,
                   base, process, nproc, killed>>

\* the publish without its drain: straight to put_nowait
W_QEmptyNoDrain ==
    /\ wpc = "qempty"
    /\ wpc' = "put"
    /\ UNCHANGED <<header_vars, clock, logger_vars, caller_vars, sup_vars, session_vars,
                   base, process, nproc, killed, frame, nframes, deaths>>

\* line 123: if not self.frame_queue.empty()
W_QEmpty ==
    /\ wpc = "qempty"
    /\ wpc' = IF frame_queue # <<>> THEN "get" ELSE "put"
    /\ UNCHANGED <<header_vars, clock, logger_vars, caller_vars, sup_vars, session_vars,
                   base, process, nproc, killed, frame, nframes, deaths>>

\* the drain that leaves the occupant in the queue
W_GetKeeps ==
    /\ wpc = "get"
    /\ wpc' = "put"
    /\ UNCHANGED <<header_vars, clock, logger_vars, caller_vars, sup_vars, session_vars,
                   base, process, nproc, killed, frame, nframes, deaths>>

\* lines 124-125: get_nowait(), queue.Empty swallowed
W_Get ==
    /\ wpc = "get"
    /\ IF frame_queue # <<>>
       THEN frame_queue' = Tail(frame_queue) /\ dropped' = dropped + 1
       ELSE UNCHANGED <<frame_queue, dropped>>
    /\ wpc' = "put"
    /\ UNCHANGED <<header_vars, clock, logger_vars, caller_vars, sup_vars, worker_vars_but_pc,
                   stop_event, taken, current_qr, pubs, lastpub, got>>

\* line 127: put_nowait(frame) stores the frame, or raises queue.Full (to 138)
W_Put ==
    /\ wpc = "put"
    /\ IF Len(frame_queue) < QUEUE_MAXSIZE
       THEN /\ frame_queue' = Append(frame_queue, frame)
            /\ wpc' = "inner"
       ELSE /\ wpc' = "except"
            /\ UNCHANGED frame_queue
    /\ pubs' = pubs + 1
    /\ lastpub' = frame
    /\ UNCHANGED <<header_vars, clock, logger_vars, caller_vars, sup_vars, worker_vars_but_pc,
                   stop_event, taken, current_qr, dropped, got>>

\* the read loop left without the kill
W_KillSkips ==
    /\ wpc = "kill"
    /\ wpc' = "sleepchk"
    /\ UNCHANGED <<header_vars, clock, logger_vars, caller_vars, sup_vars, session_vars,
                   base, process, nproc, killed, frame, nframes, deaths>>

\* lines 129-133: kill the subprocess after the read loop
W_Kill ==
    /\ wpc = "kill"
    /\ killed' = KillProcess(killed, process)
    /\ wpc' = "sleepchk"
    /\ UNCHANGED <<header_vars, clock, logger_vars, caller_vars, sup_vars, session_vars,
                   base, process, nproc, frame, nframes, deaths>>

\* line 135: if not self.stop_event.is_set()
W_SleepChk ==
    /\ wpc = "sleepchk"
    /\ wpc' = IF stop_event THEN "loop" ELSE "sleep1"
    /\ UNCHANGED <<header_vars, clock, logger_vars, caller_vars, sup_vars, session_vars,
                   base, process, nproc, killed, frame, nframes, deaths>>

\* line 136: time.sleep(1.0) is over
W_Sleep1 ==
    /\ wpc = "sleep1"
    /\ wpc' = "loop"
    /\ UNCHANGED <<header_vars, clock, logger_vars, caller_vars, sup_vars, session_vars,
                   base, process, nproc, killed, frame, nframes, deaths>>

\* the handler without its kill
W_ExceptSkips ==
    /\ wpc = "except"
    /\ wpc' = "sleep2"
    /\ UNCHANGED <<header_vars, clock, logger_vars, caller_vars, sup_vars, session_vars,
                   base, process, nproc, killed, frame, nframes, deaths>>

\* lines 138-146: the handler logs and kills the subprocess
W_Except ==
    /\ wpc = "except"
    /\ killed' = KillProcess(killed, process)
    /\ wpc' = "sleep2"
    /\ UNCHANGED <<header_vars, clock, logger_vars, caller_vars, sup_vars, session_vars,
                   base, process, nproc, frame, nframes, deaths>>

\* the handler ending the thread instead of going round the loop
W_Sleep2Ends ==
    /\ wpc = "sleep2"
    /\ wpc' = "done"
    /\ UNCHANGED <<header_vars, clock, logger_vars, caller_vars, sup_vars, session_vars,
                   base, process, nproc, killed, frame, nframes, deaths>>

\* line 148: time.sleep(2.0) is over
W_Sleep2 ==
    /\ wpc = "sleep2"
    /\ wpc' = "loop"
    /\ UNCHANGED <<header_vars, clock, logger_vars, caller_vars, sup_vars, session_vars,
                   base, process, nproc, killed, frame, nframes, deaths>>

\* lines 150-154: the final kill, then run() returns
W_Final ==
    /\ wpc = "final"
    /\ killed' = KillProcess(killed, process)
    /\ wpc' = "done"
    /\ UNCHANGED <<header_vars, clock, logger_vars, caller_vars, sup_vars, session_vars,
                   base, process, nproc, frame, nframes, deaths>>

Worker ==
    \/ W_Loop \/ W_Launch \/ W_Inner \/ W_Read \/ W_QEmpty \/ W_Get \/ W_Put
    \/ W_Kill \/ W_SleepChk \/ W_Sleep1 \/ W_Except \/ W_Sleep2 \/ W_Final

\* ------------------------------------------------------ QRApp.update_loop
\* what detectAndDecode may give as data: nothing, blanks only, or a payload
DetectData == {"", " "} \cup Payloads

\* line 284: data.strip()
Strip(data) == IF data = " " THEN "" ELSE data

\* a get_nowait that hands out the head and leaves it in the queue
GetNowaitPeek(q) == q

\* line 275: what get_nowait() leaves in a queue that is not empty
GetNowait(q) == Tail(q)

\* lines 271-312: poll the queue; on a frame, detect and maybe_save (63-87, the
\* only caller in the program, so the lock is free and the call runs through);
\* an error of the append is caught at line 308, before line 296 is reached
update_loop ==
    /\ spc = "mainloop"
    /\ \A c \in Callers : cpc[c] = "idle"
    /\ IF frame_queue = <<>>
       THEN /\ taken' = 0
            /\ UNCHANGED <<frame_queue, pubs, got, current_qr, logger_vars, lastcall>>
       ELSE /\ taken' = Head(frame_queue)
            /\ frame_queue' = GetNowait(frame_queue)
            /\ pubs' = 0
            /\ got' = Head(frame_queue)
            /\ \E data \in DetectData :
                 IF data = ""
                 THEN UNCHANGED <<current_qr, logger_vars, lastcall>>
                 ELSE LET qr_text == Strip(data)
                          should_save ==
                              /\ ~Falsy(qr_text)
                              /\ ShouldSave(last_saved_text, last_saved_time, qr_text, clock)
                      IN  /\ UNCHANGED lock
                          /\ IF should_save
                             THEN \/ /\ Len(DataRows(csv)) < MaxRows
                                     /\ csv' = AppendRow(csv, IsoNow(clock), qr_text)
                                     /\ last_saved_text' = qr_text
                                     /\ last_saved_time' = clock
                                     /\ current_qr' = qr_text
                                     /\ lastcall' = [qr |-> qr_text, ret |-> TRUE,
                                                     held |-> FALSE, raised |-> FALSE]
                                  \/ /\ UNCHANGED <<csv, current_qr>>
                                     /\ LET after == AfterFailedAppend(last_saved_text,
                                                          last_saved_time, qr_text, clock)
                                        IN  /\ last_saved_text' = after[1]
                                            /\ last_saved_time' = after[2]
                                     /\ lastcall' = [qr |-> qr_text, ret |-> FALSE,
                                                     held |-> FALSE, raised |-> TRUE]
                             ELSE /\ UNCHANGED <<csv, last_saved_text, last_saved_time>>
                                  /\ current_qr' = qr_text
                                  /\ lastcall' = [qr |-> qr_text, ret |-> FALSE,
                                                  held |-> FALSE, raised |-> FALSE]
    /\ UNCHANGED <<header_vars, clock, cpc, c_qr, c_now, sup_vars, worker_vars, stop_event,
                   lastpub, dropped>>

\* ------------------------------------- ensure_csv_header, step by step
\* line 47: os.path.exists(path)
H_Check ==
    /\ hpc = "idle"
    /\ hpc' = IF csv.exists THEN "present" ELSE "missing"
    /\ UNCHANGED <<clock, logger_vars, caller_vars, sup_vars, worker_vars, session_vars>>

\* lines 48-49 when the test found no file; else the function returns
H_Finish ==
    /\ hpc \in {"present", "missing"}
    /\ csv' = IF hpc = "missing" THEN WriteHeader(csv) ELSE csv
    /\ hpc' = "idle"
    /\ UNCHANGED <<clock, last_saved_text, last_saved_time, lock, caller_vars,
                   sup_vars, worker_vars, session_vars>>

\* lines 81-82 run by another writer of the same file (a second instance of
\* the program in the same directory): append, creating a missing file
X_Append ==
    /\ Len(DataRows(csv)) < MaxRows
    /\ \E q \in Payloads : csv' = AppendRow(csv, clock, q)
    /\ UNCHANGED <<header_vars, clock, last_saved_text, last_saved_time, lock,
                   caller_vars, sup_vars, worker_vars, session_vars>>

\* ------------------------------------------------------------------ Init
\* the process starts in supervised_run; captures.csv may be left from a run
InitRest ==
    /\ clock = 0
    /\ hpc = "idle"
    /\ last_saved_text = None
    /\ last_saved_time = 0
    /\ lock = NoCaller
    /\ cpc = [c \in Callers |-> "idle"]
    /\ c_qr = [c \in Callers |-> None]
    /\ c_now = [c \in Callers |-> 0]
    /\ lastcall = [qr |-> None, ret |-> FALSE, held |-> FALSE, raised |-> FALSE]
    /\ stop_supervisor = FALSE
    /\ spc = "while"
    /\ wake = 0
    /\ stop_event = FALSE
    /\ frame_queue = <<>>
    /\ wpc = "unborn"
    /\ process = 0
    /\ nproc = 0
    /\ killed = {}
    /\ frame = 0
    /\ nframes = 0
    /\ deaths = 0
    /\ base = 0
    /\ taken = 0
    /\ current_qr = ""
    /\ pubs = 0
    /\ lastpub = 0
    /\ dropped = 0
    /\ got = 0

Init ==
    /\ csv \in {NoFile, ensure_csv_header(NoFile)}
    /\ InitRest

\* ensure_csv_header called over any log while another writer appends to it
InitHeader ==
    /\ csv \in {NoFile, WriteHeader(NoFile), AppendRow(WriteHeader(NoFile), 0, "A")}
    /\ InitRest

NextHeader ==
    \/ H_Check
    \/ H_Finish
    \/ X_Append
    \/ Tick

SpecHeader == InitHeader /\ [][NextHeader]_vars

\* The logger under concurrent callers, across supervisor restarts.
NextLogger ==
    \/ \E c \in Callers : MS_Call(c) \/ MS_Acquire(c) \/ MS_Critical(c)
    \/ Supervisor
    \/ SupWake
    \/ Tick

SpecLogger == Init /\ [][NextLogger]_vars

\* The process within one instant of the clock: the supervisor, the session it
\* starts, the reader thread and the UI timer. The supervisor's sleep(2) does
\* not end while the clock stands still, so this follows one session.
Next ==
    \/ Supervisor
    \/ Worker
    \/ update_loop

Spec == Init /\ [][Next]_vars

\* The same with the reader thread scheduled fairly: a daemon thread of a
\* live process keeps running, and a pending read or sleep returns.
SpecLive == Spec /\ WF_vars(Worker)

\* The whole process as time passes: sessions end and are restarted.
NextClock ==
    \/ Next
    \/ SupWake
    \/ Tick

SpecClock == Init /\ [][NextClock]_vars

\* ------------------------------------------------------------ properties
\* a maybe_save call of caller c returns from its critical section in this step
Returns(c) == cpc[c] = "cs" /\ cpc'[c] = "idle" /\ ~lastcall'.raised

\* C1: a maybe_save call with a non-empty payload returns true exactly when
\* nothing was saved yet, or the payload differs from last_payload, or
\* now - last_saved_at >= 5; on true exactly one record with that payload is
\* appended and the debounce state becomes (payload, now); on false the log
\* and the debounce state are unchanged.
C1_DebounceDecision ==
    [][\A c \in Callers :
         Returns(c) =>
           LET due == \/ last_saved_text = None
                      \/ c_qr[c] # last_saved_text
                      \/ c_now[c] - last_saved_time >= 5
               n == Len(csv.rows)
           IN  /\ lastcall'.qr = c_qr[c]
               /\ lastcall'.ret = due
               /\ IF due
                  THEN /\ Len(csv'.rows) = n + 1
                       /\ SubSeq(csv'.rows, 1, n) = csv.rows
                       /\ csv'.rows[n + 1].text = c_qr[c]
                       /\ last_saved_text' = c_qr[c]
                       /\ last_saved_time' = c_now[c]
                  ELSE UNCHANGED <<csv, last_saved_text, last_saved_time>>]_vars

\* C1 witness: an unchanged payload was saved again once the cooldown was over
C1_Witness ==
    /\ lastcall = [qr |-> "A", ret |-> TRUE, held |-> FALSE, raised |-> FALSE]
    /\ last_saved_time = 5
    /\ Len(DataRows(csv)) = 2
    /\ \A i \in 1..2 : DataRows(csv)[i].text = "A"

\* C2: a maybe_save call with an empty or absent payload returns false, appends
\* nothing and leaves last_payload and last_saved_at alone, and it never gets
\* to the lock: no caller waits for or holds the lock with such a payload.
C2_EmptyNeverSaved ==
    /\ [](/\ \A c \in Callers : cpc[c] # "idle" => c_qr[c] \notin {None, ""}
          /\ lastcall.qr \in {None, ""} => ~lastcall.ret
          /\ \A i \in 1..Len(csv.rows) : csv.rows[i].text \notin {None, ""}
          /\ last_saved_text # "")
    /\ [][(lastcall' # lastcall /\ lastcall'.qr \in {None, ""}) =>
            UNCHANGED <<csv, last_saved_text, last_saved_time, lock, cpc>>]_vars

\* C2 witness: an empty payload was turned away while another caller held the lock
C2_Witness ==
    /\ lastcall = [qr |-> "", ret |-> FALSE, held |-> TRUE, raised |-> FALSE]
    /\ lock # NoCaller

\* C7: the supervisor loop ends only with the flag set; once a session has
\* ended with the flag set no further session is started, on the return path
\* and on the exception path; after a session that ended with the flag clear
\* the supervisor does not stop: it sleeps and goes back to start a session.
C7_SupervisorStops ==
    /\ [](spc = "stopped" => stop_supervisor)
    /\ [][(stop_supervisor /\ spc # "mainloop") =>
            (stop_supervisor' /\ spc' \notin {"init", "mainloop"})]_vars
    /\ [][(~stop_supervisor /\ spc \in {"after", "except"}) =>
            spc' \in {spc, "sleep"}]_vars
    /\ [][(~stop_supervisor /\ spc \in {"sleep", "while"}) =>
            spc' \in {spc, "while", "init"}]_vars

\* C7 witness: the loop has ended after the supervisor slept at least once
C7_Witness == spc = "stopped" /\ stop_supervisor /\ wake > 0

\* C8: every record of the log is the first one, or differs in payload from
\* the record before it, or was written at least 5 s after it.
C8_LogDebounced ==
    LET rows == DataRows(csv)
    IN  \A i \in 2..Len(rows) :
          \/ rows[i].text # rows[i - 1].text
          \/ rows[i].ts - rows[i - 1].ts >= 5

\* C9: concurrent maybe_save calls behave as if run one at a time in the order
\* they get the lock, each with the clock read when it runs: a call decides
\* with a clock value no earlier than the save accepted before it, and
\* last_saved_at never decreases from one accepted save to the next.
C9_SerialSaves ==
    [][\A c \in Callers :
         (Returns(c) /\ last_saved_text # None) =>
            /\ c_now[c] >= last_saved_time
            /\ last_saved_time' >= last_saved_time]_vars

\* C10: the timestamps of the records are non-decreasing in file order.
C10_TimestampsOrdered ==
    LET rows == DataRows(csv)
    IN  \A i, j \in 1..Len(rows) : i < j => rows[i].ts <= rows[j].ts

\* C10 witness: a record written by a call whose `now` was read before the
\* record in front of it was written
C10_Witness ==
    LET rows == DataRows(csv)
    IN  /\ Len(rows) = 2
        /\ rows[1].ts < rows[2].ts
        /\ last_saved_time < rows[1].ts
        /\ last_saved_text = rows[2].text

\* the worker is inside a publish (lines 123-127) that has not ended
MidPublish == wpc \in {"qempty", "get", "put"}

\* C3: after N >= 1 publishes with no take in between, a take (made while no
\* further publish is under way) gives the last published frame; a take with no
\* publish since the last successful take gives nothing; a take never gives
\* a frame other than the last published one.
C3_LatestWins ==
    [][update_loop =>
         /\ (pubs >= 1 /\ ~MidPublish) => taken' = lastpub
         /\ pubs = 0 => taken' = 0
         /\ taken' \in {0, lastpub}]_vars

\* C3 witness: the consumer took the last frame after an earlier one was dropped
C3_Witness == taken = lastpub /\ taken = nframes /\ dropped >= 1 /\ pubs = 0

\* C4: the frame queue never holds more than one frame, and put_nowait always
\* stores the frame: it never raises queue.Full.
C4_PutNeverFull ==
    /\ [](Len(frame_queue) <= 1)
    /\ [][W_Put => (wpc' = "inner" /\ frame_queue' = <<frame>>)]_vars

\* C4 witness: a publish that found the slot occupied has stored its frame
C4_Witness ==
    /\ wpc = "inner"
    /\ dropped >= 1
    /\ frame_queue = <<frame>>
    /\ lastpub = frame

\* C5: once the stop signal is set the worker launches no further subprocess.
C5_NoLaunchAfterStop == [][stop_event => nproc' = nproc]_vars

\* C6: the worker's loop ends only on the stop signal, and while the signal
\* is not set every stream death or exception is followed by the kill of the
\* subprocess and the launch of a new one from which the worker reads.
C6_RecoveryLoop ==
    /\ [](wpc = "done" => stop_event)
    /\ \A n \in 0..(MaxDeaths + 2) :
         (wpc \in {"kill", "except"} /\ nproc = n /\ ~stop_event)
            ~> \/ stop_event
               \/ /\ nproc > n
                  /\ wpc = "read"
                  /\ process = nproc
                  /\ \A p \in 1..(nproc - 1) : p \in killed

\* C6 witness: the worker reads from a new subprocess after three deaths
C6_Witness ==
    /\ deaths >= 3
    /\ nproc >= 4
    /\ wpc = "read"
    /\ process = nproc
    /\ ~stop_event

\* the subprocesses launched by the FFmpegReader of the current session
Launched == (base + 1)..nproc

\* s is an initial part of t
IsPrefix(s, t) == Len(s) <= Len(t) /\ SubSeq(t, 1, Len(s)) = s

\* C11: the event log is append-only: in every step of the program (the
\* header check of a new logger, a save, a restart) the rows before the step
\* are an initial part of the rows after it, and the header stays the first row.
C11_AppendOnly ==
    /\ [][IsPrefix(csv.rows, csv'.rows) /\ (csv.exists => csv'.exists)]_vars
    /\ [](csv.exists => csv.rows[1] = HeaderRow)

\* C11 witness: a restarted session has constructed its logger over a log
\* that holds records, and these are still there behind the header
C11_Witness ==
    /\ spc = "mainloop"
    /\ last_saved_text = None
    /\ Len(csv.rows) = 3
    /\ csv.rows[1] = HeaderRow
    /\ Len(DataRows(csv)) = 2

\* C12: a call of ensure_csv_header keeps every row that is in the file, also
\* when another writer creates or appends to the file between the existence
\* test and the write, and a call over a file that has its header leaves the
\* file as it is (a second call in a row changes nothing).
C12_HeaderIdempotent ==
    [][(hpc # "idle" /\ hpc' = "idle") =>
         /\ IsPrefix(DataRows(csv), DataRows(csv'))
         /\ (hpc = "present" /\ csv.rows[1] = HeaderRow) => csv' = csv]_vars

\* C13: when the append inside maybe_save fails the error goes to the caller,
\* the log, last_payload and last_saved_at are as before the call and the
\* lock is free again, so a later call is neither blocked nor debounced
\* against the save that failed; the lock is never left held by a caller
\* that is no longer in its critical section.
C13_FailedAppend ==
    /\ [][\A c \in Callers :
            (cpc[c] = "cs" /\ cpc'[c] = "idle" /\ lastcall'.raised) =>
               /\ UNCHANGED <<csv, last_saved_text, last_saved_time>>
               /\ lock' = NoCaller
               /\ ~lastcall'.ret]_vars
    /\ [](lock # NoCaller => cpc[lock] = "cs")

\* C13 witness: the first save of a logger failed; nothing is recorded as
\* saved and the lock is free
C13_Witness ==
    /\ lastcall = [qr |-> "A", ret |-> FALSE, held |-> FALSE, raised |-> TRUE]
    /\ last_saved_text = None
    /\ lock = NoCaller
    /\ spc = "mainloop"

C15_NoCooldownAfterStop ==
    [][stop_event => ~(wpc' # wpc /\ wpc' \in {"sleep1", "sleep2"})]_vars

\* C16: whenever the supervisor starts a session, the reader thread of the
\* previous session has ended and every subprocess launched so far has been
\* sent kill(), so that two workers or two live subprocesses never coexist.
C16_OneSessionAlive ==
    [][(spc = "init" /\ spc' = "mainloop") =>
         /\ wpc \in {"unborn", "done"}
         /\ \A p \in 1..nproc : p \in killed]_vars

\* C17: of the subprocesses one worker launched, at most one has not been
\* sent kill(), and it is the one the worker holds; whenever the worker is
\* outside the read loop and its two kill sites (so before every launch) all
\* of them have been killed; and a launch that fails leaves the worker with
\* no handle or with the handle of a subprocess already killed.
C17_OneLiveSubprocess ==
    /\ [](\A p \in Launched : p \notin killed => p = process)
    /\ [](wpc \in {"loop", "launch", "sleepchk", "sleep1", "sleep2", "final", "done"}
            => \A p \in Launched : p \in killed)
    /\ [][(wpc = "launch" /\ wpc' = "except") =>
             (process' = 0 \/ process' \in killed)]_vars

\* C17 witness: a launch failed while the worker still holds the handle of
\* an earlier subprocess, which is killed
C17_Witness ==
    /\ wpc = "except"
    /\ process # 0
    /\ process \in killed
    /\ process = nproc

\* C18: whenever at least one publish has ended since the consumer's last
\* successful take, a poll of the queue gives a frame and not "empty", also
\* while a later publish is under way. A poll (line 275) gives "empty"
\* exactly when the queue is empty, so: while the session polls and a publish
\* has ended since the last successful take, the queue is not empty.
C18_TakeNeverMisses ==
    (spc = "mainloop" /\ pubs >= 1) => frame_queue # <<>>

\* C19: within a session every frame the consumer obtains was published
\* later than the frame it obtained before: no frame is obtained twice and
\* none after a later one; and a frame the consumer or the drain removed is
\* not in the queue again.
C19_FramesIncrease ==
    /\ [][(update_loop /\ taken' # 0) => (taken' > got /\ got' = taken')]_vars
    /\ [](\A i \in 1..Len(frame_queue) : frame_queue[i] > got)

\* C19 witness: the consumer obtained frame 1 and then frame 2
C19_Witness ==
    /\ got = 2
    /\ taken = 2
    /\ dropped = 0
    /\ frame_queue = <<>>

\* C20: the worker publishes only the frame of a complete read: a read that
\* is short or empty (or fails) gives no new frame, touches no queue and
\* leaves the read loop for a kill; a publish is entered only from a
\* complete read, with that read's frame; and while the worker publishes,
\* the subprocess it read from has not been killed by it.
C20_PublishCompleteReads ==
    /\ [][(wpc = "read" /\ wpc' # wpc) =>
             \/ /\ nframes' = nframes + 1
                /\ frame' = nframes'
                /\ wpc' = "qempty"
             \/ /\ wpc' \in {"kill", "except"}
                /\ UNCHANGED <<nframes, frame, frame_queue, pubs, lastpub>>]_vars
    /\ [][(wpc' = "qempty" /\ wpc # "qempty") =>
             (wpc = "read" /\ nframes' = nframes + 1)]_vars
    /\ [][(wpc = "put" /\ wpc' # wpc) =>
             (frame = nframes /\ lastpub' = frame /\ lastpub' > lastpub)]_vars
    /\ [](MidPublish => (process # 0 /\ process \notin killed))

\* C20 witness: after a published frame a short read sent the worker to the
\* kill, with nothing published for it
C20_Witness ==
    /\ wpc = "kill"
    /\ ~stop_event
    /\ deaths >= 1
    /\ nframes >= 1
    /\ lastpub = nframes
    /\ process \notin killed

====
